---- MODULE Spec2Model ----
(***************************************************************************)
(* Model of agentic-company-search: the retry policy of BaseAgent, the     *)
(* two-stage search step (grounded generation, then structuring), the      *)
(* aggregation service and the batch runner.                               *)
(*                                                                         *)
(* Python floats of the retry settings are modelled as naturals; the       *)
(* language model is an external collaborator whose every call either      *)
(* returns a value or raises an exception derived from Exception.          *)
(***************************************************************************)
EXTENDS Integers, Sequences, FiniteSets, TLC

\* ------------------------------------------------------------------ bounds
MaxAttempts == 3
MaxBaseDelay == 2
MaxFactor == 3
MaxCeiling == 5

\* ------------------------------------------------------- values and kinds
\* Kinds of exception a wrapped call can raise; all derive from Exception.
\* APIError stands for any provider or transport failure, ValidationError
\* for pydantic's rejection of the response text.
ExceptionKinds == {"APIError", "ValidationError"}
\* Values a wrapped operation can return.
Values == {"r1", "r2"}
NoPrompt == [template |-> "none", body |-> "none"]

\* What one invocation of the wrapped operation can raise.
\* generate_content raises only what the provider call raises;
\* generate_content_with_schema also raises what model_validate_json raises.
RaisableKinds(f) ==
    IF f = "generate_content" THEN {"APIError"} ELSE ExceptionKinds

NoException == [kind |-> "None", raised_by |-> 0]
NoResult == [val |-> "None", returned_by |-> 0]
\* `raise None` raises a TypeError that no invocation of func produced.
RaiseNoneError == [kind |-> "TypeError", raised_by |-> 0]

VARIABLES
    settings,        \* src.config.settings: the four retry_* fields
    max_attempts,    \* the max_attempts argument of _retry_with_backoff
    func,            \* which operation the lambda wraps
    prompt,          \* the prompt the lambda captured
    rpc,             \* position inside _retry_with_backoff
    attempts,        \* local: the attempt cap N
    attempt,         \* local: loop variable of range(attempts)
    last_exception,  \* local: last caught exception
    calls,           \* outcome of every invocation of func, in order
    sleeps,          \* argument of every time.sleep, in order
    slept_after,     \* zero-indexed attempt each sleep followed
    ret,             \* value returned by _retry_with_backoff
    exc,             \* exception raised by _retry_with_backoff
    \* --- SummitAgent.search / CompaniesAgent.search, StructurizeAgent.structurize
    agent,           \* which Search Step runs
    input_data,      \* its typed input
    spc,             \* position inside search()
    raw_text,        \* local: text returned by the grounded generation
    structurize_args,\* text argument of every structurize() call, in order
    ground_log,      \* calls of generate_content(google_grounding=True)
    schema_log,      \* calls of generate_content_with_schema
    search_ret,      \* value returned by search()
    search_exc,      \* exception raised out of search()
    \* --- CompaniesService.get_companies_by_location
    apc,             \* position inside get_companies_by_location
    summits,         \* summits_output.summits
    idx,             \* 1-based position of the for loop in summits
    results,         \* local: list of SummitCompanies built so far
    summit_searches, \* number of summit_agent.search calls
    company_searches,\* every companies_agent.search call, in order
    svc_ret,         \* list returned to the caller
    svc_exc,         \* exception raised to the caller
    \* --- BatchCompanyService.run
    locations,       \* the locations argument
    bpc,             \* position inside run
    bi,              \* the loop's i of enumerate(locations, 1)
    success_count,   \* local counter
    error_count,     \* local counter
    failed_locations,\* local list
    attempted,       \* location of every get_companies_by_location call
    outcomes,        \* how the try body of each iteration ended
    files,           \* result files written by _save_results, in order
    batch_sleeps,    \* every time.sleep of run, with the iteration it ended
    summary,         \* arguments of _print_summary
    \* --- process_companies.main
    results_dir,     \* files of the results directory, in listing order
    output_file,     \* filtered_companies.json
    fpc,             \* position inside main
    run_no,          \* which run of the script this is
    file_idx,        \* position of load_json_files in the glob result
    files_read,      \* names of the files json.load has parsed, in order
    summit_data,     \* local all_data / summit_data
    all_companies,   \* local: result of extract_companies
    filtered_companies, \* local: after both filters
    deduplicated,    \* result of remove_duplicates, before the sort
    unique_companies,\* local: the list that is sorted and dumped
    first_run,       \* what the first run read and wrote
    filter_error     \* exception that left main

retryVars == <<settings, max_attempts, func, prompt, rpc, attempts, attempt,
               last_exception, calls, sleeps, slept_after, ret, exc>>

searchVars == <<agent, input_data, spc, raw_text, structurize_args,
                ground_log, schema_log, search_ret, search_exc>>

serviceVars == <<apc, summits, idx, results, summit_searches,
                 company_searches, svc_ret, svc_exc>>

batchVars == <<locations, bpc, bi, success_count, error_count, failed_locations,
               attempted, outcomes, files, batch_sleeps, summary>>

filterVars == <<results_dir, output_file, fpc, run_no, file_idx, files_read,
                summit_data, all_companies, filtered_companies, deduplicated,
                unique_companies, first_run, filter_error>>

nonRetryVars == <<searchVars, serviceVars, batchVars, filterVars>>

vars == <<retryVars, nonRetryVars>>

\* ---------------------------------------------------------- configuration
SettingsSet ==
    [retry_max_attempts : 0..MaxAttempts,
     retry_base_delay : 1..MaxBaseDelay,
     retry_max_delay : 0..MaxCeiling,
     retry_exponential_base : 1..MaxFactor]

NoneArg == [is_none |-> TRUE, value |-> 0]
MaxAttemptsArgs == {NoneArg} \cup [is_none : {FALSE}, value : 0..MaxAttempts]

\* ------------------------------------------------------------ retry policy
RECURSIVE Pow(_, _)
Pow(base, e) == IF e = 0 THEN 1 ELSE base * Pow(base, e - 1)

Min(a, b) == IF a <= b THEN a ELSE b

calculate_delay_uncapped(s, a) ==
    s.retry_base_delay * Pow(s.retry_exponential_base, a)

calculate_delay(s, a) ==
    LET delay == s.retry_base_delay * Pow(s.retry_exponential_base, a)
    IN  Min(delay, s.retry_max_delay)

ResolveAttempts(arg, s) ==
    IF ~arg.is_none THEN arg.value ELSE s.retry_max_attempts

InRangeOffByOne(a, n) == a <= n

\* `for attempt in range(attempts)`: the body runs while attempt < attempts.
InRange(a, n) == a < n

\* `if attempt < attempts - 1`: a retry (and so a sleep) remains.
AttemptsRemain(a, n) == a < n - 1

CatchesOnlyAPIError(e) == e.kind = "APIError"

\* `except Exception as e`: every exception derived from Exception matches.
ExceptMatches(e) == e.kind \in ExceptionKinds

KeepFirstException(prev, e) == IF prev = NoException THEN e ELSE prev

\* `last_exception = e`
RecordException(prev, e) == e

RetryInitLocals ==
    /\ rpc = "entry"
    /\ attempts = 0
    /\ attempt = 0
    /\ last_exception = NoException
    /\ calls = <<>>
    /\ sleeps = <<>>
    /\ slept_after = <<>>
    /\ ret = NoResult
    /\ exc = NoException

\* Lines 77-78: resolve the cap and clear last_exception.
RetryEnter ==
    /\ rpc = "entry"
    /\ attempts' = ResolveAttempts(max_attempts, settings)
    /\ last_exception' = NoException
    /\ attempt' = 0
    /\ rpc' = "loop"
    /\ UNCHANGED <<settings, max_attempts, func, prompt, calls, sleeps, slept_after, ret, exc>>
    /\ UNCHANGED nonRetryVars

AttemptSucceedsNoReturn ==
    /\ rpc = "loop"
    /\ InRange(attempt, attempts)
    /\ \E v \in Values :
        /\ calls' = Append(calls, [ok |-> TRUE, val |-> v, kind |-> "None", arg |-> prompt])
        /\ ret' = [val |-> v, returned_by |-> Len(calls) + 1]
    /\ attempt' = attempt + 1
    /\ UNCHANGED <<settings, max_attempts, func, prompt, attempts, rpc,
                   last_exception, sleeps, slept_after, exc>>
    /\ UNCHANGED nonRetryVars

\* Line 82: func() returns; the value is returned at once.
AttemptSucceeds ==
    /\ rpc = "loop"
    /\ InRange(attempt, attempts)
    /\ \E v \in Values :
        /\ calls' = Append(calls, [ok |-> TRUE, val |-> v, kind |-> "None", arg |-> prompt])
        /\ ret' = [val |-> v, returned_by |-> Len(calls) + 1]
    /\ rpc' = "returned"
    /\ UNCHANGED <<settings, max_attempts, func, prompt, attempts, attempt,
                   last_exception, sleeps, slept_after, exc>>
    /\ UNCHANGED nonRetryVars

\* Lines 82-100: func() raises; the handler records the exception and
\* sleeps when attempts remain, then the loop advances.
AttemptFails ==
    /\ rpc = "loop"
    /\ InRange(attempt, attempts)
    /\ \E k \in RaisableKinds(func) :
        LET e == [kind |-> k, raised_by |-> Len(calls) + 1] IN
        /\ calls' = Append(calls, [ok |-> FALSE, val |-> "None", kind |-> k, arg |-> prompt])
        /\ IF ExceptMatches(e)
           THEN /\ last_exception' = RecordException(last_exception, e)
                /\ IF AttemptsRemain(attempt, attempts)
                   THEN /\ sleeps' = Append(sleeps, calculate_delay(settings, attempt))
                        /\ slept_after' = Append(slept_after, attempt)
                   ELSE UNCHANGED <<sleeps, slept_after>>
                /\ attempt' = attempt + 1
                /\ UNCHANGED <<rpc, exc>>
           ELSE /\ exc' = e
                /\ rpc' = "raised"
                /\ UNCHANGED <<last_exception, attempt, sleeps, slept_after>>
    /\ UNCHANGED <<settings, max_attempts, func, prompt, attempts, ret>>
    /\ UNCHANGED nonRetryVars

\* Line 104: the loop is exhausted; `raise last_exception`.
RaiseLast ==
    /\ rpc = "loop"
    /\ ~InRange(attempt, attempts)
    /\ exc' = IF last_exception = NoException THEN RaiseNoneError ELSE last_exception
    /\ rpc' = "raised"
    /\ UNCHANGED <<settings, max_attempts, func, prompt, attempts, attempt,
                   last_exception, calls, sleeps, slept_after, ret>>
    /\ UNCHANGED nonRetryVars

NoReturn == [returned |-> FALSE, list |-> <<>>]
NoSummary == [printed |-> FALSE, success_count |-> 0, error_count |-> 0,
              failed_locations |-> <<>>, total |-> 0]

NoFile == [exists |-> FALSE, content |-> <<>>]
NoFirstRun == [done |-> FALSE, read |-> <<>>, output |-> NoFile]

\* The post-processing script is not running.
FilterIdle ==
    /\ results_dir = <<>>
    /\ output_file = NoFile
    /\ fpc = "idle"
    /\ run_no = 0
    /\ file_idx = 0
    /\ files_read = <<>>
    /\ summit_data = <<>>
    /\ all_companies = <<>>
    /\ filtered_companies = <<>>
    /\ deduplicated = <<>>
    /\ unique_companies = <<>>
    /\ first_run = NoFirstRun
    /\ filter_error = NoException

\* The batch runner is not running.
BatchIdle ==
    /\ locations = <<>>
    /\ bpc = "idle"
    /\ bi = 0
    /\ success_count = 0
    /\ error_count = 0
    /\ failed_locations = <<>>
    /\ attempted = <<>>
    /\ outcomes = <<>>
    /\ files = <<>>
    /\ batch_sleeps = <<>>
    /\ summary = NoSummary

\* The aggregation service is not running.
ServiceIdle ==
    /\ apc = "idle"
    /\ summits = <<>>
    /\ idx = 0
    /\ results = <<>>
    /\ summit_searches = 0
    /\ company_searches = <<>>
    /\ svc_ret = NoReturn
    /\ svc_exc = NoException

\* The search step is not running.
SearchIdle ==
    /\ agent = "none"
    /\ input_data = "none"
    /\ spc = "idle"
    /\ raw_text = "None"
    /\ structurize_args = <<>>
    /\ ground_log = <<>>
    /\ schema_log = <<>>
    /\ search_ret = NoResult
    /\ search_exc = NoException

\* A direct call of _retry_with_backoff on an arbitrary operation.
Init ==
    /\ settings \in SettingsSet
    /\ max_attempts \in MaxAttemptsArgs
    /\ func = "func"
    /\ prompt = NoPrompt
    /\ RetryInitLocals
    /\ SearchIdle
    /\ ServiceIdle
    /\ BatchIdle
    /\ FilterIdle

Next == RetryEnter \/ AttemptSucceeds \/ AttemptFails \/ RaiseLast

Spec == Init /\ [][Next]_vars

\* Sequential code always takes its next step.
FairSpec == Init /\ [][Next]_vars /\ WF_vars(Next)

\* ------------------------------------------------------------- search step
Agents == {"SummitAgent", "CompaniesAgent"}
Inputs == {"in1", "in2"}

\* SUMMIT_SEARCH_PROMPT.format(...) / COMPANIES_PROMPT.format(...)
SearchPrompt(a, inp) ==
    [template |-> IF a = "SummitAgent" THEN "SUMMIT_SEARCH_PROMPT" ELSE "COMPANIES_PROMPT",
     body |-> inp]

\* STRUCTURIZE_PROMPT.format(text=text)
StructurizePrompt(text) == [template |-> "STRUCTURIZE_PROMPT", body |-> text]

SearchMaxAttempts == NoneArg

StructurizeWithoutRetry == [is_none |-> FALSE, value |-> 1]

\* structurize() calls _retry_with_backoff without max_attempts.
StructurizeMaxAttempts == NoneArg

\* A fresh frame of _retry_with_backoff wrapping f, which captured pr.
EnterRetry(f, pr, arg) ==
    /\ func' = f
    /\ prompt' = pr
    /\ max_attempts' = arg
    /\ rpc' = "entry"
    /\ attempts' = 0
    /\ attempt' = 0
    /\ last_exception' = NoException
    /\ calls' = <<>>
    /\ sleeps' = <<>>
    /\ slept_after' = <<>>
    /\ ret' = NoResult
    /\ exc' = NoException
    /\ UNCHANGED settings

\* search(): build the prompt and start the grounded generation under retry.
SearchStart ==
    /\ spc = "start"
    /\ EnterRetry("generate_content", SearchPrompt(agent, input_data), SearchMaxAttempts)
    /\ spc' = "grounding"
    /\ UNCHANGED <<agent, input_data, raw_text, structurize_args,
                   ground_log, schema_log, search_ret, search_exc>>
    /\ UNCHANGED <<serviceVars, batchVars, filterVars>>

\* The grounded generation returned: raw_text is bound and structurize()
\* starts the schema-constrained call under retry.
GroundingReturned ==
    /\ spc = "grounding"
    /\ rpc = "returned"
    /\ raw_text' = ret.val
    /\ ground_log' = calls
    /\ structurize_args' = Append(structurize_args, ret.val)
    /\ EnterRetry("generate_content_with_schema", StructurizePrompt(ret.val),
                  StructurizeMaxAttempts)
    /\ spc' = "structuring"
    /\ UNCHANGED <<agent, input_data, schema_log, search_ret, search_exc>>
    /\ UNCHANGED <<serviceVars, batchVars, filterVars>>

GroundingRaisedStructurizesAnyway ==
    /\ spc = "grounding"
    /\ rpc = "raised"
    /\ raw_text' = "None"
    /\ ground_log' = calls
    /\ structurize_args' = Append(structurize_args, "None")
    /\ EnterRetry("generate_content_with_schema", StructurizePrompt("None"),
                  StructurizeMaxAttempts)
    /\ spc' = "structuring"
    /\ UNCHANGED <<agent, input_data, schema_log, search_ret, search_exc>>
    /\ UNCHANGED <<serviceVars, batchVars, filterVars>>

\* The grounded generation exhausted its attempts: search() raises.
GroundingRaised ==
    /\ spc = "grounding"
    /\ rpc = "raised"
    /\ ground_log' = calls
    /\ search_exc' = exc
    /\ spc' = "raised"
    /\ UNCHANGED retryVars
    /\ UNCHANGED <<agent, input_data, raw_text, structurize_args, schema_log, search_ret>>
    /\ UNCHANGED <<serviceVars, batchVars, filterVars>>

\* structurize() returned: search() returns its result.
StructuringReturned ==
    /\ spc = "structuring"
    /\ rpc = "returned"
    /\ schema_log' = calls
    /\ search_ret' = ret
    /\ spc' = "returned"
    /\ UNCHANGED retryVars
    /\ UNCHANGED <<agent, input_data, raw_text, structurize_args, ground_log, search_exc>>
    /\ UNCHANGED <<serviceVars, batchVars, filterVars>>

StructuringRaisedRerunsSearch ==
    /\ spc = "structuring"
    /\ rpc = "raised"
    /\ schema_log' = calls
    /\ IF Len(structurize_args) < 2
       THEN /\ spc' = "start"
            /\ search_exc' = search_exc
       ELSE /\ spc' = "raised"
            /\ search_exc' = exc
    /\ UNCHANGED retryVars
    /\ UNCHANGED <<agent, input_data, raw_text, structurize_args, ground_log, search_ret>>
    /\ UNCHANGED <<serviceVars, batchVars, filterVars>>

\* structurize() raised: the exception leaves search() uncaught.
StructuringRaised ==
    /\ spc = "structuring"
    /\ rpc = "raised"
    /\ schema_log' = calls
    /\ search_exc' = exc
    /\ spc' = "raised"
    /\ UNCHANGED retryVars
    /\ UNCHANGED <<agent, input_data, raw_text, structurize_args, ground_log, search_ret>>
    /\ UNCHANGED <<serviceVars, batchVars, filterVars>>

InitSearch ==
    /\ settings \in SettingsSet
    /\ max_attempts = NoneArg
    /\ func = "none"
    /\ prompt = NoPrompt
    /\ rpc = "idle"
    /\ attempts = 0
    /\ attempt = 0
    /\ last_exception = NoException
    /\ calls = <<>>
    /\ sleeps = <<>>
    /\ slept_after = <<>>
    /\ ret = NoResult
    /\ exc = NoException
    /\ agent \in Agents
    /\ input_data \in Inputs
    /\ spc = "start"
    /\ raw_text = "None"
    /\ structurize_args = <<>>
    /\ ground_log = <<>>
    /\ schema_log = <<>>
    /\ search_ret = NoResult
    /\ search_exc = NoException
    /\ ServiceIdle
    /\ BatchIdle
    /\ FilterIdle

NextSearch ==
    \/ SearchStart
    \/ RetryEnter
    \/ AttemptSucceeds
    \/ AttemptFails
    \/ RaiseLast
    \/ GroundingReturned
    \/ GroundingRaised
    \/ StructuringReturned
    \/ StructuringRaised

SpecSearch == InitSearch /\ [][NextSearch]_vars

\* ------------------------------------------------------ aggregation service
\* get_companies_by_location sees each agent's search() only through its
\* outcome: the call returns a value or raises.  The inside of search() is
\* the search step above.
MaxSummits == 3
SummitIds == {"s1", "s2"}
CompanyLists == {"cs1", "cs2"}

\* Every list of at most MaxSummits summits a Summit Search can return.
SummitLists == UNION {[1..n -> SummitIds] : n \in 0..MaxSummits}

\* What search() can raise: the final failure of one of its two retried
\* calls, or the TypeError of `raise None` when the cap is 0.
SearchExceptionKinds == ExceptionKinds \cup {"TypeError"}

\* The retry policy is not running.
RetryIdle ==
    /\ settings = [retry_max_attempts |-> 3, retry_base_delay |-> 1,
                   retry_max_delay |-> 60, retry_exponential_base |-> 2]
    /\ max_attempts = NoneArg
    /\ func = "none"
    /\ prompt = NoPrompt
    /\ rpc = "idle"
    /\ attempts = 0
    /\ attempt = 0
    /\ last_exception = NoException
    /\ calls = <<>>
    /\ sleeps = <<>>
    /\ slept_after = <<>>
    /\ ret = NoResult
    /\ exc = NoException

PrependResult(rs, summit, companies) ==
    <<[summit |-> summit, companies |-> companies]>> \o rs

\* results.append(SummitCompanies(summit=summit, companies=...))
AppendResult(rs, summit, companies) ==
    Append(rs, [summit |-> summit, companies |-> companies])

\* Line 31: summit_agent.search returns; the loop starts on an empty list.
SummitSearchReturns ==
    /\ apc = "start"
    /\ \E ss \in SummitLists : summits' = ss
    /\ summit_searches' = summit_searches + 1
    /\ results' = <<>>
    /\ idx' = 1
    /\ apc' = "loop"
    /\ UNCHANGED <<company_searches, svc_ret, svc_exc>>
    /\ UNCHANGED <<retryVars, searchVars, batchVars, filterVars>>

\* Line 31: summit_agent.search raises; nothing catches it.
SummitSearchRaises ==
    /\ apc = "start"
    /\ summit_searches' = summit_searches + 1
    /\ \E k \in SearchExceptionKinds : svc_exc' = [kind |-> k, raised_by |-> 0]
    /\ apc' = "raised"
    /\ UNCHANGED <<summits, idx, results, company_searches, svc_ret>>
    /\ UNCHANGED <<retryVars, searchVars, batchVars, filterVars>>

\* Lines 34-43: companies_agent.search returns for the current summit and
\* the pairing is appended.
CompanySearchReturns ==
    /\ apc = "loop"
    /\ idx <= Len(summits)
    /\ \E cs \in CompanyLists :
        LET n == Len(company_searches) + 1 IN
        /\ company_searches' = Append(company_searches,
               [summit |-> summits[idx], ok |-> TRUE, val |-> cs, kind |-> "None"])
        /\ results' = AppendResult(results, summits[idx], [val |-> cs, call |-> n])
    /\ idx' = idx + 1
    /\ UNCHANGED <<apc, summits, summit_searches, svc_ret, svc_exc>>
    /\ UNCHANGED <<retryVars, searchVars, batchVars, filterVars>>

CompanySearchRaisesSkipped ==
    /\ apc = "loop"
    /\ idx <= Len(summits)
    /\ \E k \in SearchExceptionKinds :
        company_searches' = Append(company_searches,
            [summit |-> summits[idx], ok |-> FALSE, val |-> "None", kind |-> k])
    /\ idx' = idx + 1
    /\ UNCHANGED <<apc, summits, results, summit_searches, svc_ret, svc_exc>>
    /\ UNCHANGED <<retryVars, searchVars, batchVars, filterVars>>

\* Line 37: companies_agent.search raises for the current summit; the
\* exception leaves get_companies_by_location and the local list is dropped.
CompanySearchRaises ==
    /\ apc = "loop"
    /\ idx <= Len(summits)
    /\ \E k \in SearchExceptionKinds :
        LET n == Len(company_searches) + 1 IN
        /\ company_searches' = Append(company_searches,
               [summit |-> summits[idx], ok |-> FALSE, val |-> "None", kind |-> k])
        /\ svc_exc' = [kind |-> k, raised_by |-> n]
    /\ apc' = "raised"
    /\ UNCHANGED <<summits, idx, results, summit_searches, svc_ret>>
    /\ UNCHANGED <<retryVars, searchVars, batchVars, filterVars>>

\* Lines 45-47: the loop is over; the list is returned.
ServiceReturns ==
    /\ apc = "loop"
    /\ idx > Len(summits)
    /\ svc_ret' = [returned |-> TRUE, list |-> results]
    /\ apc' = "returned"
    /\ UNCHANGED <<summits, idx, results, summit_searches, company_searches, svc_exc>>
    /\ UNCHANGED <<retryVars, searchVars, batchVars, filterVars>>

InitService ==
    /\ RetryIdle
    /\ SearchIdle
    /\ apc = "start"
    /\ summits = <<>>
    /\ idx = 0
    /\ results = <<>>
    /\ summit_searches = 0
    /\ company_searches = <<>>
    /\ svc_ret = NoReturn
    /\ svc_exc = NoException
    /\ BatchIdle
    /\ FilterIdle

NextService ==
    \/ SummitSearchReturns
    \/ SummitSearchRaises
    \/ CompanySearchReturns
    \/ CompanySearchRaises
    \/ ServiceReturns

SpecService == InitService /\ [][NextService]_vars

\* ------------------------------------------------------------ batch runner
\* run sees get_companies_by_location and _save_results through their
\* outcome.  files holds the result files whose write completed.
MaxLocations == 3
SLEEP_SUCCESS == 60
SLEEP_ERROR == 180

LocationNames == {"Berlin", "berlin", "New York"}

\* location.lower().replace(' ', '-')
Slug(location) ==
    CASE location = "Berlin" -> "berlin"
      [] location = "berlin" -> "berlin"
      [] location = "New York" -> "new-york"

\* Every list of at most MaxLocations locations; run() does not require
\* the entries to be distinct.
LocationLists == UNION {[1..n -> LocationNames] : n \in 0..MaxLocations}

SleepsAfterLast(i, total) == i <= total

\* `if i < total`: a sleep separates two locations, none follows the last.
SleepsBeforeNext(i, total) == i < total

HandleLocationErrorShortSleep ==
    /\ error_count' = error_count + 1
    /\ failed_locations' = Append(failed_locations, locations[bi])
    /\ batch_sleeps' =
          IF SleepsBeforeNext(bi, Len(locations))
          THEN Append(batch_sleeps, [after |-> bi, seconds |-> SLEEP_SUCCESS])
          ELSE batch_sleeps
    /\ bi' = bi + 1

\* The except handler of lines 73-80, run for iteration bi.
HandleLocationError ==
    /\ error_count' = error_count + 1
    /\ failed_locations' = Append(failed_locations, locations[bi])
    /\ batch_sleeps' =
          IF SleepsBeforeNext(bi, Len(locations))
          THEN Append(batch_sleeps, [after |-> bi, seconds |-> SLEEP_ERROR])
          ELSE batch_sleeps
    /\ bi' = bi + 1

\* Lines 55-71: the aggregation returns, _save_results writes the file of
\* the location, the success is counted and the success sleep follows.
LocationSucceeds ==
    /\ bpc = "loop"
    /\ bi <= Len(locations)
    /\ attempted' = Append(attempted, locations[bi])
    /\ outcomes' = Append(outcomes, "ok")
    /\ files' = Append(files, [slug |-> Slug(locations[bi]),
                               uuid |-> Len(files) + 1,
                               results_of |-> bi])
    /\ success_count' = success_count + 1
    /\ batch_sleeps' =
          IF SleepsBeforeNext(bi, Len(locations))
          THEN Append(batch_sleeps, [after |-> bi, seconds |-> SLEEP_SUCCESS])
          ELSE batch_sleeps
    /\ bi' = bi + 1
    /\ UNCHANGED <<locations, bpc, error_count, failed_locations, summary>>
    /\ UNCHANGED <<retryVars, searchVars, serviceVars, filterVars>>

AggregationFailureAborts ==
    /\ bpc = "loop"
    /\ bi <= Len(locations)
    /\ attempted' = Append(attempted, locations[bi])
    /\ outcomes' = Append(outcomes, "aggregation_error")
    /\ bpc' = "raised"
    /\ UNCHANGED <<locations, bi, success_count, error_count, failed_locations,
                   files, batch_sleeps, summary>>
    /\ UNCHANGED <<retryVars, searchVars, serviceVars, filterVars>>

\* Lines 59-62, 73-80: get_companies_by_location raises; the handler
\* records the location and the error sleep follows.
AggregationFails ==
    /\ bpc = "loop"
    /\ bi <= Len(locations)
    /\ attempted' = Append(attempted, locations[bi])
    /\ outcomes' = Append(outcomes, "aggregation_error")
    /\ HandleLocationError
    /\ UNCHANGED <<locations, bpc, success_count, files, summary>>
    /\ UNCHANGED <<retryVars, searchVars, serviceVars, filterVars>>

SaveFailsCountedAsSuccess ==
    /\ bpc = "loop"
    /\ bi <= Len(locations)
    /\ attempted' = Append(attempted, locations[bi])
    /\ outcomes' = Append(outcomes, "save_error")
    /\ success_count' = success_count + 1
    /\ batch_sleeps' =
          IF SleepsBeforeNext(bi, Len(locations))
          THEN Append(batch_sleeps, [after |-> bi, seconds |-> SLEEP_SUCCESS])
          ELSE batch_sleeps
    /\ bi' = bi + 1
    /\ UNCHANGED <<locations, bpc, error_count, failed_locations, files, summary>>
    /\ UNCHANGED <<retryVars, searchVars, serviceVars, filterVars>>

\* Lines 64, 73-80: the aggregation returns but _save_results raises before
\* the file is written; the same handler runs.
SaveFails ==
    /\ bpc = "loop"
    /\ bi <= Len(locations)
    /\ attempted' = Append(attempted, locations[bi])
    /\ outcomes' = Append(outcomes, "save_error")
    /\ HandleLocationError
    /\ UNCHANGED <<locations, bpc, success_count, files, summary>>
    /\ UNCHANGED <<retryVars, searchVars, serviceVars, filterVars>>

\* Line 82: the loop is over; the summary is printed and run returns.
BatchFinishes ==
    /\ bpc = "loop"
    /\ bi > Len(locations)
    /\ summary' = [printed |-> TRUE, success_count |-> success_count,
                   error_count |-> error_count,
                   failed_locations |-> failed_locations,
                   total |-> Len(locations)]
    /\ bpc' = "returned"
    /\ UNCHANGED <<locations, bi, success_count, error_count, failed_locations,
                   attempted, outcomes, files, batch_sleeps>>
    /\ UNCHANGED <<retryVars, searchVars, serviceVars, filterVars>>

\* Lines 48-55: the counters are cleared and the loop starts at i = 1.
InitBatch ==
    /\ RetryIdle
    /\ SearchIdle
    /\ ServiceIdle
    /\ locations \in LocationLists
    /\ bpc = "loop"
    /\ bi = 1
    /\ success_count = 0
    /\ error_count = 0
    /\ failed_locations = <<>>
    /\ attempted = <<>>
    /\ outcomes = <<>>
    /\ files = <<>>
    /\ batch_sleeps = <<>>
    /\ summary = NoSummary
    /\ FilterIdle

NextBatch ==
    \/ LocationSucceeds
    \/ AggregationFails
    \/ SaveFails
    \/ BatchFinishes

SpecBatch == InitBatch /\ [][NextBatch]_vars

\* ---------------------------------------------------- post-processing filter
\* process_companies.py.  A Python str is the sequence of its code points,
\* so that lower(), strip() and the ordering of strings are computed.
MaxCompanies == 3

S_Acme == <<65, 99, 109, 101>>
S_ACME_sp == <<65, 67, 77, 69, 32>>
S_acme == <<97, 99, 109, 101>>
S_Beta == <<66, 101, 116, 97>>
S_blank == <<32, 32>>
S_startup == <<115, 116, 97, 114, 116, 117, 112>>
S_small == <<115, 109, 97, 108, 108>>
S_Small == <<83, 109, 97, 108, 108>>
S_medium == <<109, 101, 100, 105, 117, 109>>
S_LARGE == <<76, 65, 82, 71, 69>>
S_enterprise == <<101, 110, 116, 101, 114, 112, 114, 105, 115, 101>>
S_united_states == <<117, 110, 105, 116, 101, 100, 32, 115, 116, 97, 116, 101, 115>>
S_United_States == <<85, 110, 105, 116, 101, 100, 32, 83, 116, 97, 116, 101, 115>>
S_UNITED_STATES == <<85, 78, 73, 84, 69, 68, 32, 83, 84, 65, 84, 69, 83>>
S_Germany == <<71, 101, 114, 109, 97, 110, 121>>
S_large == <<108, 97, 114, 103, 101>>
S_Other_Co == <<79, 116, 104, 101, 114, 32, 67, 111>>
S_Big_Corp == <<66, 105, 103, 32, 67, 111, 114, 112>>
EmptyStr == <<>>

\* A key the JSON object does not have; dict.get(key) then yields None.
Missing == <<-1>>

\* allowed_scales and excluded_countries of main.
allowed_scales == {S_startup, S_small, S_medium}
excluded_countries == {S_united_states}

\* str.lower() on ASCII text.
LowerChar(c) == IF c >= 65 /\ c <= 90 THEN c + 32 ELSE c
Lower(str) == [i \in 1..Len(str) |-> LowerChar(str[i])]

\* str.strip(): leading and trailing whitespace removed.
IsSpace(c) == c \in {9, 10, 13, 32}
RECURSIVE LStrip(_)
LStrip(str) ==
    IF str = <<>> THEN <<>>
    ELSE IF IsSpace(Head(str)) THEN LStrip(Tail(str)) ELSE str
RECURSIVE RStrip(_)
RStrip(str) ==
    IF str = <<>> THEN <<>>
    ELSE IF IsSpace(str[Len(str)]) THEN RStrip(SubSeq(str, 1, Len(str) - 1)) ELSE str
Strip(str) == RStrip(LStrip(str))

\* str <= str: code points compared left to right, a prefix comes first.
RECURSIVE StrLeq(_, _)
StrLeq(a, b) ==
    IF a = <<>> THEN TRUE
    ELSE IF b = <<>> THEN FALSE
    ELSE IF Head(a) < Head(b) THEN TRUE
    ELSE IF Head(a) > Head(b) THEN FALSE
    ELSE StrLeq(Tail(a), Tail(b))

\* dict.get(key, default)
Get(value, default) == IF value = Missing THEN default ELSE value

\* Company objects the result files can hold.
CompanyPool ==
    { [name |-> S_Acme,    origin_country |-> S_Germany,       field |-> "ai",      scale |-> S_startup],
      [name |-> S_ACME_sp, origin_country |-> S_Germany,       field |-> "fintech", scale |-> S_Small],
      [name |-> S_acme,    origin_country |-> S_UNITED_STATES, field |-> "ai",      scale |-> S_medium],
      [name |-> S_acme,    origin_country |-> Missing,         field |-> "saas",    scale |-> S_medium],
      [name |-> S_Beta,    origin_country |-> S_Germany,       field |-> "saas",    scale |-> S_small],
      [name |-> S_Beta,    origin_country |-> S_United_States, field |-> "ai",      scale |-> S_startup],
      [name |-> S_Beta,    origin_country |-> S_Germany,       field |-> "ai",      scale |-> S_LARGE],
      [name |-> Missing,   origin_country |-> S_Germany,       field |-> "ai",      scale |-> S_startup],
      [name |-> S_blank,   origin_country |-> S_Germany,       field |-> "other",   scale |-> S_enterprise],
      [name |-> S_blank,   origin_country |-> S_Germany,       field |-> "other",   scale |-> S_small],
      [name |-> EmptyStr,  origin_country |-> S_Germany,       field |-> "saas",    scale |-> S_medium] }

CompanySeqs(n) == UNION {[1..k -> CompanyPool] : k \in 0..n}

\* One element of a result file: a SummitCompanies object, or an object
\* without the "companies" key.
Entry(summit_name, cs) ==
    [has_companies |-> TRUE, has_summit |-> TRUE, summit_name |-> summit_name, companies |-> cs]
EntryWithoutCompanies ==
    [has_companies |-> FALSE, has_summit |-> FALSE, summit_name |-> "none", companies |-> <<>>]

\* results_dir.glob("*.json")
IsJsonName(file_name) == file_name \in {"a.json", "b.json", "filtered_companies.json"}
Glob(dir) == SelectSeq(dir, LAMBDA f : IsJsonName(f.name))

\* extract_companies: the companies of every entry that has the key, in
\* order, each with the name of its summit.
RECURSIVE extract_companies(_)
extract_companies(data) ==
    IF data = <<>> THEN <<>>
    ELSE LET entry == Head(data)
             summit_name == IF entry.has_summit THEN entry.summit_name ELSE "Unknown"
             own == IF entry.has_companies
                    THEN [i \in 1..Len(entry.companies) |->
                            [name |-> entry.companies[i].name,
                             origin_country |-> entry.companies[i].origin_country,
                             field |-> entry.companies[i].field,
                             scale |-> entry.companies[i].scale,
                             summit |-> summit_name]]
                    ELSE <<>>
         IN  own \o extract_companies(Tail(data))

\* c.get("scale", "").lower()
ScaleKey(c) == Lower(Get(c.scale, EmptyStr))

CountryKeyCaseSensitive(c) == Get(c.origin_country, EmptyStr)

\* c.get("origin_country", "").lower()
CountryKey(c) == Lower(Get(c.origin_country, EmptyStr))

filter_by_scale(cs, allowed) == SelectSeq(cs, LAMBDA c : ScaleKey(c) \in allowed)

filter_out_countries(cs, excluded) == SelectSeq(cs, LAMBDA c : CountryKey(c) \notin excluded)

NormalizedNameWithoutStrip(c) == Lower(Get(c.name, EmptyStr))

\* company.get("name", "").strip().lower()
NormalizedName(c) == Lower(Strip(Get(c.name, EmptyStr)))

\* company_clean: the four output keys, values as company.get(key) gives them.
CleanCompany(c) ==
    [name |-> c.name, origin_country |-> c.origin_country,
     field |-> c.field, scale |-> c.scale]

RECURSIVE RemoveDuplicatesKeepLastFrom(_, _, _)
RemoveDuplicatesKeepLastFrom(cs, seen, acc) ==
    IF cs = <<>> THEN acc
    ELSE LET company == Head(cs)
             name == NormalizedName(company)
         IN  IF name # EmptyStr
             THEN RemoveDuplicatesKeepLastFrom(Tail(cs), seen \cup {name},
                     Append(SelectSeq(acc, LAMBDA u : NormalizedName(u) # name),
                            CleanCompany(company)))
             ELSE RemoveDuplicatesKeepLastFrom(Tail(cs), seen, acc)

RECURSIVE RemoveDuplicatesKeepsNameless(_, _, _)
RemoveDuplicatesKeepsNameless(cs, seen, acc) ==
    IF cs = <<>> THEN acc
    ELSE LET company == Head(cs)
             name == NormalizedName(company)
         IN  IF name \notin seen
             THEN RemoveDuplicatesKeepsNameless(Tail(cs), seen \cup {name},
                                                Append(acc, CleanCompany(company)))
             ELSE RemoveDuplicatesKeepsNameless(Tail(cs), seen, acc)

\* The loop of remove_duplicates with its seen set and unique_companies list.
RECURSIVE RemoveDuplicatesFrom(_, _, _)
RemoveDuplicatesFrom(cs, seen, acc) ==
    IF cs = <<>> THEN acc
    ELSE LET company == Head(cs)
             name == NormalizedName(company)
         IN  IF name # EmptyStr /\ name \notin seen
             THEN RemoveDuplicatesFrom(Tail(cs), seen \cup {name},
                                       Append(acc, CleanCompany(company)))
             ELSE RemoveDuplicatesFrom(Tail(cs), seen, acc)

remove_duplicates_keep_last(cs) == RemoveDuplicatesKeepLastFrom(cs, {}, <<>>)

remove_duplicates(cs) == RemoveDuplicatesFrom(cs, {}, <<>>)

SortKeyCaseSensitive(c) == Get(c.name, EmptyStr)

\* key=lambda x: x.get("name", "").lower()
SortKey(c) == Lower(Get(c.name, EmptyStr))

\* list.sort(key=...) is stable: c goes after every element whose key is
\* not greater than its own.
RECURSIVE InsertByKey(_, _)
InsertByKey(sorted, c) ==
    IF sorted = <<>> THEN <<c>>
    ELSE IF StrLeq(SortKey(Head(sorted)), SortKey(c))
         THEN <<Head(sorted)>> \o InsertByKey(Tail(sorted), c)
         ELSE <<c>> \o sorted

RECURSIVE SortByName(_)
SortByName(cs) ==
    IF cs = <<>> THEN <<>>
    ELSE InsertByKey(SortByName(SubSeq(cs, 1, Len(cs) - 1)), cs[Len(cs)])

AppendToOutput(old, companies) == [exists |-> TRUE, content |-> old.content \o companies]

\* open(output_file, "w") and json.dump: the file holds the list alone.
WriteOutput(old, companies) == [exists |-> TRUE, content |-> companies]

\* output_file is next to the script, not inside results/: writing it
\* leaves the directory as it was.
DirAfterWrite(dir, out) == dir

\* Lines 15-18: the next file of the glob is parsed and its list appended.
LoadFile ==
    /\ fpc = "loading"
    /\ file_idx <= Len(Glob(results_dir))
    /\ ~Glob(results_dir)[file_idx].malformed
    /\ summit_data' = summit_data \o Glob(results_dir)[file_idx].data
    /\ files_read' = Append(files_read, Glob(results_dir)[file_idx].name)
    /\ file_idx' = file_idx + 1
    /\ UNCHANGED <<results_dir, output_file, fpc, run_no, all_companies,
                   filtered_companies, deduplicated, unique_companies,
                   first_run, filter_error>>
    /\ UNCHANGED <<retryVars, searchVars, serviceVars, batchVars>>

LoadFileSkipsMalformed ==
    /\ fpc = "loading"
    /\ file_idx <= Len(Glob(results_dir))
    /\ Glob(results_dir)[file_idx].malformed
    /\ file_idx' = file_idx + 1
    /\ UNCHANGED <<results_dir, output_file, fpc, run_no, files_read, summit_data,
                   all_companies, filtered_companies, deduplicated,
                   unique_companies, first_run, filter_error>>
    /\ UNCHANGED <<retryVars, searchVars, serviceVars, batchVars>>

\* Line 17: json.load raises on a file that is not JSON; nothing in
\* load_json_files or main catches it.
LoadFileFails ==
    /\ fpc = "loading"
    /\ file_idx <= Len(Glob(results_dir))
    /\ Glob(results_dir)[file_idx].malformed
    /\ filter_error' = [kind |-> "JSONDecodeError", raised_by |-> file_idx]
    /\ fpc' = "crashed"
    /\ UNCHANGED <<results_dir, output_file, run_no, file_idx, files_read, summit_data,
                   all_companies, filtered_companies, deduplicated,
                   unique_companies, first_run>>
    /\ UNCHANGED <<retryVars, searchVars, serviceVars, batchVars>>

ProcessAndWriteDedupesFirst ==
    /\ fpc = "loading"
    /\ file_idx > Len(Glob(results_dir))
    /\ LET extracted == extract_companies(summit_data)
           unique == remove_duplicates(extracted)
           by_scale == filter_by_scale(unique, allowed_scales)
           by_country == filter_out_countries(by_scale, excluded_countries)
           sorted == SortByName(by_country)
       IN  /\ all_companies' = extracted
           /\ filtered_companies' = by_country
           /\ deduplicated' = by_country
           /\ unique_companies' = sorted
           /\ output_file' = WriteOutput(output_file, sorted)
           /\ results_dir' = DirAfterWrite(results_dir, output_file)
    /\ fpc' = "done"
    /\ UNCHANGED <<run_no, file_idx, files_read, summit_data, first_run, filter_error>>
    /\ UNCHANGED <<retryVars, searchVars, serviceVars, batchVars>>

\* Lines 80-100: extract, filter by scale, filter out countries, remove
\* duplicates, sort by name, write the output file.
ProcessAndWrite ==
    /\ fpc = "loading"
    /\ file_idx > Len(Glob(results_dir))
    /\ LET extracted == extract_companies(summit_data)
           by_scale == filter_by_scale(extracted, allowed_scales)
           by_country == filter_out_countries(by_scale, excluded_countries)
           unique == remove_duplicates(by_country)
           sorted == SortByName(unique)
       IN  /\ all_companies' = extracted
           /\ filtered_companies' = by_country
           /\ deduplicated' = unique
           /\ unique_companies' = sorted
           /\ output_file' = WriteOutput(output_file, sorted)
           /\ results_dir' = DirAfterWrite(results_dir, output_file)
    /\ fpc' = "done"
    /\ UNCHANGED <<run_no, file_idx, files_read, summit_data, first_run, filter_error>>
    /\ UNCHANGED <<retryVars, searchVars, serviceVars, batchVars>>

\* The script is started a second time on the directory as the first run
\* left it.
RunAgain ==
    /\ fpc = "done"
    /\ run_no = 1
    /\ first_run' = [done |-> TRUE, read |-> files_read, output |-> output_file]
    /\ run_no' = 2
    /\ fpc' = "loading"
    /\ file_idx' = 1
    /\ files_read' = <<>>
    /\ summit_data' = <<>>
    /\ all_companies' = <<>>
    /\ filtered_companies' = <<>>
    /\ deduplicated' = <<>>
    /\ unique_companies' = <<>>
    /\ UNCHANGED <<results_dir, output_file, filter_error>>
    /\ UNCHANGED <<retryVars, searchVars, serviceVars, batchVars>>

\* main starts with empty locals.
FilterStart ==
    /\ output_file = NoFile
    /\ fpc = "loading"
    /\ run_no = 1
    /\ file_idx = 1
    /\ files_read = <<>>
    /\ summit_data = <<>>
    /\ all_companies = <<>>
    /\ filtered_companies = <<>>
    /\ deduplicated = <<>>
    /\ unique_companies = <<>>
    /\ first_run = NoFirstRun
    /\ filter_error = NoException

\* Two files: the companies of a list of at most MaxCompanies, cut in two;
\* the second file also holds an object without companies, may not match
\* the glob, and either file may be malformed.
InitFilter ==
    /\ RetryIdle
    /\ SearchIdle
    /\ ServiceIdle
    /\ BatchIdle
    /\ \E flat \in CompanySeqs(MaxCompanies) :
       \E cut \in 0..Len(flat) :
       \E second_name \in {"b.json", "b.txt"} :
       \E bad \in 0..2 :
          results_dir =
            << [name |-> "a.json", malformed |-> (bad = 1),
                data |-> IF bad = 1 THEN <<>>
                         ELSE <<Entry("Web Summit", SubSeq(flat, 1, cut))>>],
               [name |-> second_name, malformed |-> (bad = 2),
                data |-> IF bad = 2 THEN <<>>
                         ELSE <<EntryWithoutCompanies,
                                Entry("Slush", SubSeq(flat, cut + 1, Len(flat)))>>] >>
    /\ FilterStart

NextFilter ==
    \/ LoadFile
    \/ LoadFileFails
    \/ ProcessAndWrite
    \/ RunAgain

SpecFilter == InitFilter /\ [][NextFilter]_vars

\* The example input: one file whose companies are, in order, "Acme",
\* "ACME ", "Other Co" and "Big Corp".  The fields the example leaves open
\* range over the scales and countries it allows.
AllowedScaleSpellings == {S_startup, S_small, S_Small, S_medium}
AnyScaleSpelling == AllowedScaleSpellings \cup {S_LARGE, S_enterprise}
AnyCountrySpelling == {S_Germany, S_United_States, S_UNITED_STATES}

ExampleCompanies(scale1, scale2, scale3, country4) ==
    << [name |-> S_Acme,     origin_country |-> S_Germany,       field |-> "ai",      scale |-> scale1],
       [name |-> S_ACME_sp,  origin_country |-> S_Germany,       field |-> "fintech", scale |-> scale2],
       [name |-> S_Other_Co, origin_country |-> S_United_States, field |-> "saas",    scale |-> scale3],
       [name |-> S_Big_Corp, origin_country |-> country4,        field |-> "other",   scale |-> S_enterprise] >>

InitExample ==
    /\ RetryIdle
    /\ SearchIdle
    /\ ServiceIdle
    /\ BatchIdle
    /\ \E scale1, scale2 \in AllowedScaleSpellings :
       \E scale3 \in AnyScaleSpelling :
       \E country4 \in AnyCountrySpelling :
          results_dir =
            << [name |-> "a.json", malformed |-> FALSE,
                data |-> <<Entry("Web Summit",
                                 ExampleCompanies(scale1, scale2, scale3, country4))>>] >>
    /\ FilterStart

NextExample ==
    \/ LoadFile
    \/ ProcessAndWrite

SpecExample == InitExample /\ [][NextExample]_vars

\* ------------------------------------------------- retry policy: properties
\* The attempt cap N the call runs with.
CapN == ResolveAttempts(max_attempts, settings)
Terminated == rpc \in {"returned", "raised"}
AllFailed == \A i \in 1..Len(calls) : ~calls[i].ok

C1_Bounded ==
    CapN >= 1 =>
        /\ Len(calls) <= CapN
        /\ (Terminated /\ AllFailed) => Len(calls) = CapN

\* C1: for every cap N >= 1 and every pattern of outcomes the wrapped
\* operation is invoked at most N times, exactly N times when every attempt
\* fails, and the call then terminates by returning or raising.
C1_AtMostNInvocations == []C1_Bounded /\ <>Terminated

C1_Witness ==
    /\ rpc = "raised"
    /\ CapN >= 2
    /\ Len(calls) = CapN
    /\ AllFailed

\* C2: when all N >= 1 attempts fail, the exception raised is exactly the
\* one the Nth invocation raised (same kind, same object).
C2_RaisesFinalException ==
    (rpc = "raised" /\ CapN >= 1 /\ AllFailed /\ Len(calls) = CapN) =>
        exc = [kind |-> calls[CapN].kind, raised_by |-> CapN]

C2_Witness ==
    /\ rpc = "raised"
    /\ CapN >= 2
    /\ Len(calls) = CapN
    /\ calls[1].kind # calls[CapN].kind
    /\ exc.raised_by = CapN

C3_FirstSuccess ==
    /\ \A i \in 1..Len(calls) : calls[i].ok => (i = Len(calls) /\ rpc = "returned")
    /\ rpc = "returned" =>
        LET k == Len(calls) IN
        /\ k >= 1 /\ k <= CapN
        /\ calls[k].ok
        /\ \A i \in 1..(k - 1) : ~calls[i].ok
        /\ ret = [val |-> calls[k].val, returned_by |-> k]
        /\ Len(sleeps) = k - 1

\* C3: a first success on attempt k returns that attempt's result after
\* exactly k invocations and k-1 sleeps, and nothing is invoked or slept
\* afterwards.
C3_ReturnsOnFirstSuccess ==
    /\ []C3_FirstSuccess
    /\ [][rpc = "returned" => (calls' = calls /\ sleeps' = sleeps /\ ret' = ret)]_vars

C3_Witness ==
    /\ rpc = "returned"
    /\ Len(calls) >= 2
    /\ Len(sleeps) = Len(calls) - 1

C5_NoEarlyExit == (rpc = "raised" /\ CapN >= 1) => (Len(calls) = CapN /\ AllFailed)

\* C5: a failure of any kind on an attempt that is not the last leaves the
\* call inside the loop with an attempt still to make, and the call raises
\* only after all N invocations have failed.
C5_EveryFailureRetried ==
    /\ []C5_NoEarlyExit
    /\ [][(/\ rpc = "loop"
           /\ Len(calls') = Len(calls) + 1
           /\ ~calls'[Len(calls')].ok
           /\ attempt < attempts - 1)
          => (/\ rpc' = "loop"
              /\ attempt' = attempt + 1
              /\ attempts' = attempts
              /\ InRange(attempt', attempts'))]_vars

C5_Witness ==
    /\ Len(calls) >= 3
    /\ calls[1].kind = "ValidationError"
    /\ calls[2].kind = "APIError"

\* ------------------------------------------------ structuring: properties
\* The schema-constrained calls of the one structurize() call of a search.
SchemaCalls == IF spc = "structuring" THEN calls ELSE schema_log
StructurizeCalled == Len(structurize_args) = 1
StructurizeFinished == StructurizeCalled /\ spc \in {"returned", "raised"}
HasValidationFailure(log) == \E i \in 1..Len(log) : log[i].kind = "ValidationError"

\* C6 as stated: once a response of the model fails validation, structurize()
\* has made exactly one schema-constrained call and raises that failure.
C6_NotRetriedAtStructuring ==
    (StructurizeFinished /\ HasValidationFailure(schema_log)) =>
        /\ Len(schema_log) = 1
        /\ spc = "raised"
        /\ search_exc = [kind |-> "ValidationError", raised_by |-> 1]

\* C6 (amended): structurize() retries a validation failure under the retry
\* policy.  A validation failure on an attempt that is not the last is
\* followed by another schema-constrained call with the same prompt; the
\* failure reaches the caller only from the last of N = retry_max_attempts
\* calls, unchanged, after exactly N calls.
C6_RetriedAtStructuring ==
    LET N == settings.retry_max_attempts IN
    /\ \A i \in 1..Len(SchemaCalls) :
        /\ SchemaCalls[i].arg = StructurizePrompt(raw_text)
        /\ (SchemaCalls[i].kind = "ValidationError" /\ i < N) =>
              \/ Len(SchemaCalls) > i
              \/ (spc = "structuring" /\ rpc = "loop" /\ attempt = i /\ InRange(attempt, attempts))
    /\ (StructurizeFinished /\ spc = "raised" /\ N >= 1) =>
        /\ Len(schema_log) = N
        /\ \A i \in 1..N : ~schema_log[i].ok
        /\ search_exc = [kind |-> schema_log[N].kind, raised_by |-> N]

C6_Witness ==
    /\ StructurizeFinished
    /\ spc = "raised"
    /\ Len(schema_log) >= 2
    /\ schema_log[1].kind = "ValidationError"
    /\ search_exc.kind = "ValidationError"
    /\ search_exc.raised_by = Len(schema_log)

\* ------------------------------------------------ aggregation: properties
\* C7: when the call returns (Summit Search and all M Company Searches
\* succeeded) Summit Search ran once, Company Search ran M times, the i-th
\* for the i-th summit, and the i-th element of the returned list pairs the
\* i-th summit with the result of the i-th Company Search.
C7_OnePairingPerSummit ==
    apc = "returned" =>
        LET M == Len(summits) IN
        /\ summit_searches = 1
        /\ Len(company_searches) = M
        /\ svc_ret.returned
        /\ Len(svc_ret.list) = M
        /\ \A i \in 1..M :
            /\ company_searches[i].ok
            /\ company_searches[i].summit = summits[i]
            /\ svc_ret.list[i].summit = summits[i]
            /\ svc_ret.list[i].companies = [val |-> company_searches[i].val, call |-> i]

C7_Witness ==
    /\ apc = "returned"
    /\ Len(summits) >= 2
    /\ summits[1] # summits[2]
    /\ company_searches[1].val # company_searches[2].val
    /\ Len(svc_ret.list) = Len(summits)

\* C8: a failed Company Search is the last one made: it was the call for
\* summit j, the call has raised that failure, no search for summits
\* j+1..M follows, and no list is returned.
C8_FailurePropagatesImmediately ==
    \A j \in 1..Len(company_searches) :
        ~company_searches[j].ok =>
            /\ j = Len(company_searches)
            /\ j <= Len(summits)
            /\ company_searches[j].summit = summits[j]
            /\ apc = "raised"
            /\ svc_exc = [kind |-> company_searches[j].kind, raised_by |-> j]
            /\ svc_ret = NoReturn

C8_Witness ==
    /\ apc = "raised"
    /\ Len(company_searches) = 2
    /\ Len(summits) >= 3
    /\ company_searches[1].ok
    /\ ~company_searches[2].ok

\* ----------------------------------------------------- batch: properties
\* Positions 1..n of the list whose try body raised, in list order.
RECURSIVE FailedUpTo(_)
FailedUpTo(n) ==
    IF n = 0 THEN <<>>
    ELSE IF outcomes[n] # "ok"
         THEN Append(FailedUpTo(n - 1), n)
         ELSE FailedUpTo(n - 1)

RECURSIVE SucceededUpTo(_)
SucceededUpTo(n) ==
    IF n = 0 THEN <<>>
    ELSE IF outcomes[n] = "ok"
         THEN Append(SucceededUpTo(n - 1), n)
         ELSE SucceededUpTo(n - 1)

AggregationFailedUpTo(n) ==
    SelectSeq(FailedUpTo(n), LAMBDA i : outcomes[i] = "aggregation_error")

\* C9: run never raises; at every point the locations attempted are a
\* prefix of the list, each once and in order; one file exists for exactly
\* the positions that did not fail and the failed list holds exactly the
\* positions that failed, in order; at the end every location was
\* attempted.  When no write of a file fails, the failed positions are
\* exactly those whose aggregation call raised.
C9_FailuresIsolatedPerLocation ==
    LET n == Len(attempted)
        failed == FailedUpTo(n)
        succeeded == SucceededUpTo(n)
    IN  /\ bpc \in {"loop", "returned"}
        /\ n <= Len(locations)
        /\ Len(outcomes) = n
        /\ n = bi - 1
        /\ attempted = SubSeq(locations, 1, n)
        /\ Len(failed_locations) = Len(failed)
        /\ \A k \in 1..Len(failed) : failed_locations[k] = locations[failed[k]]
        /\ Len(files) = Len(succeeded)
        /\ \A k \in 1..Len(succeeded) :
            /\ files[k].results_of = succeeded[k]
            /\ files[k].slug = Slug(locations[succeeded[k]])
            /\ \A m \in 1..Len(files) : files[m].uuid = files[k].uuid => m = k
        /\ (\A i \in 1..n : outcomes[i] # "save_error") => failed = AggregationFailedUpTo(n)
        /\ bpc = "returned" => (n = Len(locations) /\ summary.printed)

C9_Witness ==
    /\ bpc = "returned"
    /\ Len(locations) = 3
    /\ outcomes = <<"ok", "aggregation_error", "ok">>
    /\ failed_locations = <<locations[2]>>
    /\ Len(files) = 2
    /\ files[1].results_of = 1
    /\ files[2].results_of = 3

\* C10: a location that succeeded and is not the last is followed by one
\* sleep of SLEEP_SUCCESS = 60 seconds, taken before the next location is
\* attempted; no sleep follows the last location of the list.
C10_SuccessSleep ==
    LET total == Len(locations) IN
    /\ SLEEP_SUCCESS = 60
    /\ \A k \in 1..Len(batch_sleeps) :
        /\ batch_sleeps[k].after = k
        /\ batch_sleeps[k].after < total
        /\ batch_sleeps[k].after <= Len(attempted)
    /\ \A i \in 1..Len(attempted) :
        outcomes[i] = "ok" =>
            IF i < total
            THEN /\ Len(batch_sleeps) >= i
                 /\ batch_sleeps[i] = [after |-> i, seconds |-> SLEEP_SUCCESS]
            ELSE Len(batch_sleeps) = total - 1

C10_Witness ==
    /\ bpc = "returned"
    /\ Len(locations) = 3
    /\ outcomes = <<"ok", "ok", "ok">>
    /\ batch_sleeps = <<[after |-> 1, seconds |-> 60], [after |-> 2, seconds |-> 60]>>

\* C11 as stated: every failed location, the last of the list included, is
\* recorded as failed and followed by a sleep of SLEEP_ERROR seconds.
C11_ErrorSleepAfterEveryFailure ==
    \A i \in 1..Len(attempted) :
        outcomes[i] # "ok" =>
            /\ \E k \in 1..Len(failed_locations) : failed_locations[k] = locations[i]
            /\ \E k \in 1..Len(batch_sleeps) :
                batch_sleeps[k] = [after |-> i, seconds |-> SLEEP_ERROR]

\* C11 (amended): every failed location is recorded as failed and the run
\* goes on to the next location; the sleep of SLEEP_ERROR = 180 seconds
\* (longer than SLEEP_SUCCESS) follows a failed location only when it is
\* not the last of the list, and no sleep follows a failed last location.
C11_ErrorSleepBetweenLocations ==
    LET total == Len(locations)
        failed == FailedUpTo(Len(attempted))
    IN  /\ SLEEP_ERROR = 180
        /\ SLEEP_ERROR > SLEEP_SUCCESS
        /\ error_count = Len(failed)
        /\ Len(failed_locations) = Len(failed)
        /\ \A k \in 1..Len(failed) :
            LET i == failed[k] IN
            /\ failed_locations[k] = locations[i]
            /\ bpc \in {"loop", "returned"}
            /\ bi > i
            /\ IF i < total
               THEN /\ Len(batch_sleeps) >= i
                    /\ batch_sleeps[i] = [after |-> i, seconds |-> SLEEP_ERROR]
               ELSE \A m \in 1..Len(batch_sleeps) : batch_sleeps[m].after # i
        /\ (bpc = "returned" /\ total >= 1) =>
              (Len(attempted) = total /\ Len(batch_sleeps) = total - 1)

C11_Witness ==
    /\ bpc = "returned"
    /\ Len(locations) = 3
    /\ outcomes = <<"aggregation_error", "ok", "save_error">>
    /\ batch_sleeps = <<[after |-> 1, seconds |-> 180], [after |-> 2, seconds |-> 60]>>
    /\ failed_locations = <<locations[1], locations[3]>>

\* ---------------------------------------- post-processing filter: properties
OutputWritten == fpc = "done" /\ output_file.exists
OutputList == output_file.content

\* C12: every company of the written list has a scale that lower-cases into
\* the allowed set and an origin country that does not lower-case into the
\* excluded set; no spelling of large, enterprise or United States gets in.
C12_OutputPassesFilters ==
    OutputWritten =>
        \A i \in 1..Len(OutputList) :
            LET c == OutputList[i] IN
            /\ c.scale # Missing
            /\ Lower(c.scale) \in {S_startup, S_small, S_medium}
            /\ Lower(c.scale) \notin {S_large, S_enterprise}
            /\ (c.origin_country # Missing => Lower(c.origin_country) # S_united_states)

C12_Witness ==
    /\ OutputWritten
    /\ Len(OutputList) = 1
    /\ OutputList[1].scale = S_Small
    /\ \E i \in 1..Len(all_companies) : all_companies[i].scale = S_LARGE
    /\ \E i \in 1..Len(all_companies) : all_companies[i].origin_country = S_UNITED_STATES

\* C13: the list remove_duplicates returns has no two entries with the same
\* trimmed, lower-cased name; each entry is the first entry of its input
\* with that normalized name, with that entry's own name spelling, country,
\* field and scale; entries keep the order of their first occurrences.
C13_FirstOccurrenceKept ==
    fpc = "done" =>
        LET inp == filtered_companies
            out == deduplicated
            norm(c) == Lower(Strip(IF c.name = Missing THEN <<>> ELSE c.name))
            IsFirst(i) == \A j \in 1..(i - 1) : norm(inp[j]) # norm(inp[i])
            SourceOf(k) == CHOOSE i \in 1..Len(inp) : IsFirst(i) /\ norm(inp[i]) = norm(out[k])
        IN  /\ \A k, m \in 1..Len(out) : norm(out[k]) = norm(out[m]) => k = m
            /\ \A k \in 1..Len(out) :
                /\ \E i \in 1..Len(inp) : IsFirst(i) /\ norm(inp[i]) = norm(out[k])
                /\ out[k].name = inp[SourceOf(k)].name
                /\ out[k].origin_country = inp[SourceOf(k)].origin_country
                /\ out[k].field = inp[SourceOf(k)].field
                /\ out[k].scale = inp[SourceOf(k)].scale
            /\ \A k, m \in 1..Len(out) : k < m => SourceOf(k) < SourceOf(m)
            /\ \A i \in 1..Len(inp) :
                norm(inp[i]) # <<>> => \E k \in 1..Len(out) : norm(out[k]) = norm(inp[i])

C13_Witness ==
    /\ fpc = "done"
    /\ Len(filtered_companies) = 3
    /\ filtered_companies[1].name = S_ACME_sp
    /\ filtered_companies[2].name = S_Acme
    /\ filtered_companies[3].name = S_acme
    /\ Len(deduplicated) = 1
    /\ deduplicated[1].name = S_ACME_sp
    /\ deduplicated[1].field = "fintech"

\* C14: in the written list the lower-cased name of each entry is less than
\* or equal to the lower-cased name of the entry after it.
C14_OutputSortedByName ==
    OutputWritten =>
        \A i \in 1..(Len(OutputList) - 1) :
            StrLeq(Lower(OutputList[i].name), Lower(OutputList[i + 1].name))

C14_Witness ==
    /\ OutputWritten
    /\ Len(OutputList) = 2
    /\ deduplicated[1].name = S_Beta
    /\ deduplicated[2].name = S_acme
    /\ OutputList[1].name = S_acme
    /\ OutputList[2].name = S_Beta

C15_SecondRunSame ==
    /\ run_no = 2 => fpc # "crashed"
    /\ (run_no = 2 /\ fpc = "done") =>
        /\ first_run.done
        /\ files_read = first_run.read
        /\ output_file = first_run.output

\* C15: a second run on the directory the first run left reads the same
\* files in the same order and writes the same list; no step of a run adds
\* a file to, or removes one from, the directory.
C15_Idempotent ==
    /\ []C15_SecondRunSame
    /\ [][results_dir' = results_dir]_vars

C15_Witness ==
    /\ run_no = 2
    /\ fpc = "done"
    /\ Len(files_read) = 2
    /\ Len(OutputList) = 2
    /\ output_file = first_run.output

\* C16: for the example input the written list has exactly one entry, it is
\* named "Acme", and neither "Other Co" nor "Big Corp" is in it.
C16_ExampleYieldsAcme ==
    fpc = "done" =>
        /\ output_file.exists
        /\ Len(OutputList) = 1
        /\ OutputList[1].name = S_Acme
        /\ \A i \in 1..Len(OutputList) : OutputList[i].name \notin {S_Other_Co, S_Big_Corp, S_ACME_sp}

C16_Witness ==
    /\ fpc = "done"
    /\ Len(all_companies) = 4
    /\ all_companies[1].name = S_Acme
    /\ all_companies[2].name = S_ACME_sp
    /\ all_companies[3].name = S_Other_Co
    /\ all_companies[3].scale = S_medium
    /\ all_companies[4].name = S_Big_Corp
    /\ all_companies[4].origin_country = S_Germany
    /\ Len(OutputList) = 1

\* C17: a run that meets a file that is not JSON ends with the parse error
\* of that file, at the first such file of the glob; no file of the glob is
\* skipped, and while a file of the glob is malformed no output is written.
C17_MalformedFileFailsLoudly ==
    LET globbed == Glob(results_dir)
        HasMalformed == \E i \in 1..Len(globbed) : globbed[i].malformed
    IN  /\ fpc = "crashed" =>
            /\ filter_error.kind = "JSONDecodeError"
            /\ filter_error.raised_by \in 1..Len(globbed)
            /\ globbed[filter_error.raised_by].malformed
            /\ \A i \in 1..(filter_error.raised_by - 1) : ~globbed[i].malformed
            /\ Len(files_read) = filter_error.raised_by - 1
        /\ fpc = "loading" =>
            /\ Len(files_read) = file_idx - 1
            /\ \A i \in 1..(file_idx - 1) : ~globbed[i].malformed
        /\ HasMalformed =>
            /\ fpc \in {"loading", "crashed"}
            /\ output_file = NoFile
            /\ run_no = 1

C17_Witness ==
    /\ fpc = "crashed"
    /\ filter_error = [kind |-> "JSONDecodeError", raised_by |-> 1]
    /\ Len(Glob(results_dir)) = 2
    /\ ~Glob(results_dir)[2].malformed
    /\ Len(Glob(results_dir)[2].data[2].companies) >= 2
    /\ output_file = NoFile

\* ------------------------------------------------- search step: properties
\* The grounded calls of the search.
GroundCalls == IF spc = "grounding" THEN calls ELSE ground_log
SearchCap == settings.retry_max_attempts

\* C18: structurize() is called at most once, only after a grounded call
\* returned, and with the text that call returned; every schema-constrained
\* call belongs to it.  When grounded generation fails on all N attempts
\* the search raises the failure of the Nth and structurize() is not called.
C18_StructurizeAfterGrounding ==
    /\ Len(structurize_args) <= 1
    /\ spc \in {"start", "grounding"} => (structurize_args = <<>> /\ SchemaCalls = <<>>)
    /\ \A i \in 1..Len(GroundCalls) : GroundCalls[i].arg = SearchPrompt(agent, input_data)
    /\ structurize_args # <<>> =>
        LET n == Len(ground_log) IN
        /\ n >= 1
        /\ ground_log[n].ok
        /\ \A i \in 1..(n - 1) : ~ground_log[i].ok
        /\ structurize_args[1] = ground_log[n].val
        /\ raw_text = ground_log[n].val
        /\ \A i \in 1..Len(SchemaCalls) :
              SchemaCalls[i].arg = [template |-> "STRUCTURIZE_PROMPT", body |-> ground_log[n].val]
    /\ structurize_args = <<>> => SchemaCalls = <<>>
    /\ (spc = "raised" /\ structurize_args = <<>> /\ SearchCap >= 1) =>
        /\ Len(ground_log) = SearchCap
        /\ \A i \in 1..SearchCap : ~ground_log[i].ok
        /\ search_exc = [kind |-> ground_log[SearchCap].kind, raised_by |-> SearchCap]
    /\ spc = "returned" => structurize_args # <<>>

C18_Witness ==
    /\ spc = "returned"
    /\ agent = "CompaniesAgent"
    /\ Len(ground_log) >= 2
    /\ structurize_args = <<"r2">>
    /\ ground_log[Len(ground_log)].val = "r2"
    /\ Len(schema_log) >= 1

C19_CallBudget ==
    SearchCap >= 1 =>
        /\ Len(GroundCalls) <= SearchCap
        /\ Len(SchemaCalls) <= SearchCap
        /\ Len(GroundCalls) + Len(SchemaCalls) <= 2 * SearchCap
        /\ \A i \in 1..Len(GroundCalls) : GroundCalls[i].arg.template # "STRUCTURIZE_PROMPT"
        /\ \A i \in 1..Len(SchemaCalls) :
            /\ SchemaCalls[i].arg = [template |-> "STRUCTURIZE_PROMPT", body |-> raw_text]
            /\ (i < Len(SchemaCalls) => ~SchemaCalls[i].ok)

\* C19: with cap N >= 1 a search makes at most N grounded calls and then at
\* most N schema-constrained calls, all with the prompt built from the one
\* text; once structuring has started the search never goes back to the
\* grounded generation.
C19_AtMostTwoNCalls ==
    /\ []C19_CallBudget
    /\ [][spc = "structuring" =>
            /\ spc' \in {"structuring", "returned", "raised"}
            /\ ground_log' = ground_log
            /\ raw_text' = raw_text
            /\ (calls' # calls => func' = "generate_content_with_schema")]_vars

C19_Witness ==
    /\ spc = "raised"
    /\ SearchCap >= 2
    /\ Len(ground_log) = SearchCap
    /\ Len(schema_log) = SearchCap
    /\ schema_log[1].kind = "ValidationError"

C21_CountersAccountForEveryLocation ==
    LET n == Len(attempted) IN
    /\ n = bi - 1
    /\ success_count + error_count = n
    /\ Len(failed_locations) = error_count
    /\ success_count = Len(SucceededUpTo(n))
    /\ error_count = Len(FailedUpTo(n))
    /\ success_count = Len(files)
    /\ \A i \in 1..n :
          outcomes[i] = "save_error" =>
              /\ \E k \in 1..Len(failed_locations) :
                    /\ failed_locations[k] = locations[i]
                    /\ FailedUpTo(n)[k] = i
              /\ \A m \in 1..Len(files) : files[m].results_of # i
    /\ bpc = "returned" =>
          /\ success_count + error_count = Len(locations)
          /\ summary.success_count = success_count
          /\ summary.error_count = error_count
          /\ summary.failed_locations = failed_locations
          /\ summary.total = Len(locations)

C21_Witness ==
    /\ bpc = "returned"
    /\ Len(locations) = 3
    /\ outcomes = <<"ok", "save_error", "aggregation_error">>
    /\ success_count = 1
    /\ error_count = 2
    /\ failed_locations = <<locations[2], locations[3]>>

\* ------------------------------------- post-processing filter: order of steps
\* The tests of lines 39 and 44 and the key of line 52, applied to one
\* extracted company.
PassesBothFilters(c) ==
    /\ Lower(IF c.scale = Missing THEN <<>> ELSE c.scale) \in {S_startup, S_small, S_medium}
    /\ Lower(IF c.origin_country = Missing THEN <<>> ELSE c.origin_country) # S_united_states
NameKey(c) == Lower(Strip(IF c.name = Missing THEN <<>> ELSE c.name))

\* C22: duplicates are removed after the two filters.  Every extracted
\* company that passes both filters and has a non-empty normalized name has
\* its normalized name in the output, and the output entry of that name
\* carries the fields of the first occurrence that passes the filters, even
\* when an earlier occurrence of the name was filtered out; a normalized
\* name of the input is absent from the output only if it is empty or no
\* occurrence of it passes the filters.
C22_DedupeAfterFilters ==
    OutputWritten =>
        LET inp == all_companies
            out == OutputList
            FirstPassing(i) ==
                /\ PassesBothFilters(inp[i])
                /\ \A j \in 1..(i - 1) :
                      NameKey(inp[j]) = NameKey(inp[i]) => ~PassesBothFilters(inp[j])
        IN  /\ \A i \in 1..Len(inp) :
                  (PassesBothFilters(inp[i]) /\ NameKey(inp[i]) # <<>>) =>
                      \E k \in 1..Len(out) : NameKey(out[k]) = NameKey(inp[i])
            /\ \A i \in 1..Len(inp) :
                  (FirstPassing(i) /\ NameKey(inp[i]) # <<>>) =>
                      \E k \in 1..Len(out) :
                          /\ out[k].name = inp[i].name
                          /\ out[k].origin_country = inp[i].origin_country
                          /\ out[k].field = inp[i].field
                          /\ out[k].scale = inp[i].scale
            /\ \A i \in 1..Len(inp) :
                  (\A k \in 1..Len(out) : NameKey(out[k]) # NameKey(inp[i])) =>
                      \/ NameKey(inp[i]) = <<>>
                      \/ \A j \in 1..Len(inp) :
                            NameKey(inp[j]) = NameKey(inp[i]) => ~PassesBothFilters(inp[j])
            /\ \A k \in 1..Len(out) :
                  \E i \in 1..Len(inp) :
                      FirstPassing(i) /\ NameKey(inp[i]) = NameKey(out[k])

C22_Witness ==
    /\ OutputWritten
    /\ Len(all_companies) = 3
    /\ all_companies[1].name = S_acme
    /\ all_companies[1].origin_country = S_UNITED_STATES
    /\ all_companies[2].name = S_Beta
    /\ all_companies[2].scale = S_LARGE
    /\ all_companies[3].name = S_Acme
    /\ Len(OutputList) = 1
    /\ OutputList[1].name = S_Acme
    /\ OutputList[1].scale = S_startup

\* C23: no entry of the written list has a missing, empty or
\* whitespace-only name; a run whose filtered list holds such a company
\* completes and writes its output, the company being left out by
\* remove_duplicates and every named company kept.
C23_NamelessCompaniesDropped ==
    LET Nameless(c) == c.name = Missing \/ c.name = <<>> \/ Strip(c.name) = <<>>
    IN  /\ OutputWritten =>
              /\ \A k \in 1..Len(OutputList) : ~Nameless(OutputList[k])
              /\ \A k \in 1..Len(deduplicated) : ~Nameless(deduplicated[k])
              /\ Len(deduplicated) <=
                    Len(SelectSeq(filtered_companies, LAMBDA c : ~Nameless(c)))
              /\ filter_error.kind = "None"
        /\ (fpc = "crashed") => filter_error.kind = "JSONDecodeError"

C23_Witness ==
    /\ OutputWritten
    /\ Len(filtered_companies) = 3
    /\ filtered_companies[1].name = Missing
    /\ filtered_companies[2].name = EmptyStr
    /\ filtered_companies[3].name = S_blank
    /\ OutputList = <<>>
    /\ filter_error.kind = "None"

====
